---- MODULE Spec2Model ----
(***************************************************************************)
(* A model of the sudoku2 solver: the candidate board (GameState), the     *)
(* region topology (CellGroups), the deduction strategies and the          *)
(* backtracking search of DefaultSolver::solve.                            *)
(*                                                                         *)
(* The program works on 81 cells and the values 1..9.  The model keeps     *)
(* the algorithms and scales the board down: NumCells cells, the values    *)
(* 1..NumValues, and a small family of topologies over those cells.        *)
(***************************************************************************)
EXTENDS Integers, Sequences, FiniteSets, TLC

(***************************************************************************)
(* Bounds of the model.                                                    *)
(***************************************************************************)
NumValues == 3

NumCells == 4

\* The boards the caller passes in are built from an open board by at most
\* MaxForgets removals of a candidate, or from clues alone.
MaxForgets == 3
MaxBuildSteps == 3
XWingColumns == 3
XWingRows == 2

(***************************************************************************)
(* Values, indexes, candidate sets, boards.                                *)
(***************************************************************************)
Values == 1..NumValues

Cells == 0..(NumCells - 1)

ValueBitSet == SUBSET Values

GameState == [Cells -> ValueBitSet]

CellGroupType == {"Custom", "StandardBlock", "StandardRow", "StandardColumn"}

CellGroup(t, s) == [group_type |-> t, indexes |-> s]

\* An absent board (no branch is being processed, nothing was returned).
NoState == [i \in Cells |-> {}]

Min(S) == CHOOSE x \in S : \A y \in S : x <= y

\* Ascending iteration over an index bit set.
RECURSIVE IterIndexes(_)
IterIndexes(S) ==
    IF S = {} THEN <<>> ELSE <<Min(S)>> \o IterIndexes(S \ {Min(S)})

(***************************************************************************)
(* GameCell / ValueBitSet                                                  *)
(***************************************************************************)
len(cell) == Cardinality(cell)

is_solved_cell(cell) == len(cell) = 1

is_impossible(cell) == len(cell) = 0

contains_all(set, values) == (set \cap values) = values

contains_some(set, values) == (set \cap values) # {}

\* flag = state & bit(value); flag == state
is_exactly(set, value) == (set \cap {value}) = set

\* The first value the candidate iterator yields: the lowest one.
first_candidate(cell) == Min(cell)

(***************************************************************************)
(* CellGroups queries                                                      *)
(***************************************************************************)
\* Ok(set) or Err(NoMatchingGroup): the error is raised when the collected
\* set is empty.
get_peers_at_index(groups, index, mode) ==
    LET all == UNION { groups[k].indexes :
                         k \in { n \in DOMAIN groups : index \in groups[n].indexes } }
        set == IF mode = "ExcludeSelf" THEN all \ {index} ELSE all
    IN  IF set = {} THEN [err |-> TRUE, set |-> {}]
        ELSE [err |-> FALSE, set |-> set]

\* The groups containing the index, in registration order.
get_groups_at_index(groups, index) ==
    SelectSeq(groups, LAMBDA g : index \in g.indexes)

\* .iter().filter(|g| g.group_type == group_type) over the groups at an index.
groups_of_type_at(groups, index, group_type) ==
    SelectSeq(get_groups_at_index(groups, index),
              LAMBDA g : g.group_type = group_type)

\* The set of indexes a flat_map over those groups visits.
same_type_indexes(groups, index, group_type) ==
    LET gs == groups_of_type_at(groups, index, group_type)
    IN  UNION { gs[k].indexes : k \in DOMAIN gs }

(***************************************************************************)
(* GameState mutation.  Every operation returns the board after the call   *)
(* and the flag the call returns.                                          *)
(***************************************************************************)
\* The debug_assert! of set_at_index fails: the cell is solved with another
\* value.
set_at_index_asserts(b, index, value) ==
    is_solved_cell(b[index]) /\ value \notin b[index]

set_at_index(b, index, value) ==
    IF is_exactly(b[index], value)
    THEN [state |-> b, changed |-> FALSE]
    ELSE [state |-> [b EXCEPT ![index] = {value}], changed |-> TRUE]

\* place_and_propagate_at_index reporting the change of the placed cell only.
place_and_propagate_reporting_set(b, index, value, groups) ==
    LET s     == set_at_index(b, index, value)
        peers == get_peers_at_index(groups, index, "ExcludeSelf").set
    IN  [state   |-> [j \in Cells |->
                        IF j \in peers THEN s.state[j] \ {value} ELSE s.state[j]],
         changed |-> s.changed]

place_and_propagate_at_index(b, index, value, groups) ==
    LET s     == set_at_index(b, index, value)
        peers == get_peers_at_index(groups, index, "ExcludeSelf").set
    IN  [state   |-> [j \in Cells |->
                        IF j \in peers THEN s.state[j] \ {value} ELSE s.state[j]],
         changed |-> s.changed \/ \E j \in peers : value \in s.state[j]]

forget_at_index(b, index, value) ==
    IF value \in b[index]
    THEN [state |-> [b EXCEPT ![index] = @ \ {value}], changed |-> TRUE]
    ELSE [state |-> b, changed |-> FALSE]

\* forget_many_at_index with the mask toggled instead of cleared.
forget_many_toggling(b, index, values) ==
    IF contains_some(b[index], values) \/ values # {}
    THEN [state   |-> [b EXCEPT ![index] = (@ \ values) \cup (values \ @)],
          changed |-> TRUE]
    ELSE [state |-> b, changed |-> FALSE]

forget_many_at_index(b, index, values) ==
    IF contains_some(b[index], values)
    THEN [state |-> [b EXCEPT ![index] = @ \ values], changed |-> TRUE]
    ELSE [state |-> b, changed |-> FALSE]

(***************************************************************************)
(* Whole-board queries                                                     *)
(***************************************************************************)
\* is_solved without the comparison against the peers.
is_solved_cells_only(b, groups) ==
    \A i \in Cells : is_solved_cell(b[i])

is_solved(b, groups) ==
    /\ \A i \in Cells : is_solved_cell(b[i])
    /\ \A i \in Cells :
         \A p \in get_peers_at_index(groups, i, "ExcludeSelf").set :
            p > i => b[p] # b[i]

\* is_consistent without its first loop, the search for an empty cell.
is_consistent_singles_only(b, groups) ==
    \A i \in Cells :
       is_solved_cell(b[i]) =>
          \A p \in get_peers_at_index(groups, i, "IncludeSelf").set \ {i} :
             is_solved_cell(b[p]) => ~contains_all(b[i], b[p])

is_consistent(b, groups) ==
    /\ \A i \in Cells : ~is_impossible(b[i])
    /\ \A i \in Cells :
         is_solved_cell(b[i]) =>
            \A p \in get_peers_at_index(groups, i, "IncludeSelf").set \ {i} :
               is_solved_cell(b[p]) => ~contains_all(b[i], b[p])

(***************************************************************************)
(* Strategies as the solver plays them.  Each walks the indexes in         *)
(* ascending order and mutates the board while it walks.                   *)
(***************************************************************************)
\* One visit of the naked-singles walk at index i: a solved cell's value is
\* forgotten in every peer.
naked_singles_visit(b, groups, i) ==
    LET single == b[i]
        peers  == get_peers_at_index(groups, i, "ExcludeSelf").set
    IN  IF ~is_solved_cell(single)
        THEN [state |-> b, changed |-> FALSE]
        ELSE [state   |-> [j \in Cells |->
                             IF j \in peers
                             THEN forget_many_at_index(b, j, single).state[j]
                             ELSE b[j]],
              changed |-> \E j \in peers : contains_all(b[j], single)]

RECURSIVE naked_singles_from(_, _, _, _)
naked_singles_from(b, groups, i, removed_some) ==
    IF i >= NumCells
    THEN [err |-> FALSE, state |-> b, applied |-> removed_some]
    ELSE LET v == naked_singles_visit(b, groups, i)
         IN  naked_singles_from(v.state, groups, i + 1, removed_some \/ v.changed)

play_naked_singles(b, groups) == naked_singles_from(b, groups, 0, FALSE)

\* One visit of the hidden-singles walk at index i.
\* The visit without `if cell_under_test.len() <= 1 { continue; }`.
hidden_singles_visit_any_cell(b, groups, group_type, i) ==
    LET others == same_type_indexes(groups, i, group_type) \ {i}
        values == b[i] \ UNION { b[j] : j \in others }
    IN  IF len(values) # 1
        THEN [state |-> b, changed |-> FALSE]
        ELSE [state   |-> place_and_propagate_at_index(
                              b, i, first_candidate(values), groups).state,
              changed |-> TRUE]

hidden_singles_visit(b, groups, group_type, i) ==
    LET others == same_type_indexes(groups, i, group_type) \ {i}
        values == b[i] \ UNION { b[j] : j \in others }
    IN  IF len(b[i]) <= 1 \/ len(values) # 1
        THEN [state |-> b, changed |-> FALSE]
        ELSE [state   |-> place_and_propagate_at_index(
                              b, i, first_candidate(values), groups).state,
              changed |-> TRUE]

RECURSIVE hidden_singles_from(_, _, _, _, _)
hidden_singles_from(b, groups, group_type, i, applied_some) ==
    IF i >= NumCells
    THEN [err |-> FALSE, state |-> b, applied |-> applied_some]
    ELSE LET v == hidden_singles_visit(b, groups, group_type, i)
         IN  hidden_singles_from(v.state, groups, group_type, i + 1,
                                 applied_some \/ v.changed)

play_hidden_singles_in_group(b, groups, group_type) ==
    hidden_singles_from(b, groups, group_type, 0, FALSE)

\* The twin candidates of index i, one entry per occurrence: every group of
\* the type that contains i contributes its matching cells, so a cell that
\* shares two such groups with i is listed twice.
RECURSIVE possible_twins_in(_, _, _, _, _)
possible_twins_in(b, gs, k, i, observed) ==
    IF k > Len(gs) THEN <<>>
    ELSE IterIndexes({ j \in gs[k].indexes :
                         /\ j \notin observed
                         /\ len(b[j]) = 2
                         /\ b[j] = b[i] })
         \o possible_twins_in(b, gs, k + 1, i, observed)

possible_twins(b, groups, group_type, i, observed) ==
    possible_twins_in(b, groups_of_type_at(groups, i, group_type), 1, i, observed)

\* The detection walk: the twin pairs found, or the InvalidGameState error.
RECURSIVE find_twins_from(_, _, _, _, _, _)
find_twins_from(b, groups, group_type, i, observed, twins) ==
    IF i >= NumCells THEN [err |-> FALSE, twins |-> twins]
    ELSE IF i \in observed
    THEN find_twins_from(b, groups, group_type, i + 1, observed, twins)
    ELSE IF len(b[i]) # 2
    THEN find_twins_from(b, groups, group_type, i + 1, observed \cup {i}, twins)
    ELSE LET pt == possible_twins(b, groups, group_type, i, observed \cup {i})
         IN  IF Len(pt) < 1
             THEN find_twins_from(b, groups, group_type, i + 1,
                                  observed \cup {i}, twins)
             ELSE IF Len(pt) > 1
             THEN [err |-> TRUE, twins |-> twins]
             ELSE find_twins_from(
                      b, groups, group_type, i + 1,
                      observed \cup {i, pt[1]},
                      Append(twins, [smaller |-> IF i < pt[1] THEN i ELSE pt[1],
                                     larger  |-> IF i < pt[1] THEN pt[1] ELSE i,
                                     values  |-> b[pt[1]]]))

\* The elimination walk over the detected pairs.
RECURSIVE eliminate_twins_from(_, _, _, _, _, _)
eliminate_twins_from(b, groups, group_type, twins, k, applied_some) ==
    IF k > Len(twins)
    THEN [err |-> FALSE, state |-> b, applied |-> applied_some]
    ELSE LET twin    == twins[k]
             targets == same_type_indexes(groups, twin.smaller, group_type)
                           \ {twin.smaller, twin.larger}
         IN  eliminate_twins_from(
                 [j \in Cells |->
                    IF j \in targets
                    THEN forget_many_at_index(b, j, twin.values).state[j]
                    ELSE b[j]],
                 groups, group_type, twins, k + 1,
                 applied_some \/ \E j \in targets : contains_some(b[j], twin.values))

play_naked_twins_in_group(b, groups, group_type) ==
    LET found == find_twins_from(b, groups, group_type, 0, {}, <<>>)
    IN  IF found.err THEN [err |-> TRUE, state |-> b, applied |-> FALSE]
        ELSE IF found.twins = <<>>
        THEN [err |-> FALSE, state |-> b, applied |-> FALSE]
        ELSE eliminate_twins_from(b, groups, group_type, found.twins, 1, FALSE)

(***************************************************************************)
(* HiddenTwins::apply_in_group                                             *)
(***************************************************************************)
\* get_peer_indexes: the indexes of the groups of the type that contain the
\* index, group after group, each ascending (a shared index is repeated).
RECURSIVE peer_indexes_from(_, _)
peer_indexes_from(gs, k) ==
    IF k > Len(gs) THEN <<>>
    ELSE IterIndexes(gs[k].indexes) \o peer_indexes_from(gs, k + 1)

get_peer_indexes(groups, index, group_type) ==
    peer_indexes_from(groups_of_type_at(groups, index, group_type), 1)

\* The cell is overwritten with the given candidates; true if it changed.
set_many_at_index(b, index, values) ==
    [state |-> [b EXCEPT ![index] = values], changed |-> b[index] # values]

\* The inner loop over the peers after index_under_test, from position k of
\* the peer sequence on: the twins pushed, until the walk of this index ends
\* or is abandoned (continue 'next_index).
RECURSIVE hidden_twins_scan(_, _, _, _, _, _)
hidden_twins_scan(b, peers, k, iut, values_observed, twins) ==
    IF k > Len(peers) THEN twins
    ELSE LET index  == peers[k]
             values == b[index] \cap b[iut]
         IN  IF index <= iut \/ len(values) # 2
             THEN hidden_twins_scan(b, peers, k + 1, iut, values_observed, twins)
             ELSE IF len(b[iut]) = 2 /\ len(b[index]) = 2
             THEN twins
             ELSE IF contains_some(values_observed, values)
             THEN twins
             ELSE IF \E n \in DOMAIN peers :
                        /\ peers[n] # iut
                        /\ peers[n] # index
                        /\ contains_some(b[peers[n]], values)
             THEN twins
             ELSE hidden_twins_scan(
                      b, peers, k + 1, iut, values_observed \cup values,
                      Append(twins, [smaller |-> IF iut < index THEN iut ELSE index,
                                     larger  |-> IF iut < index THEN index ELSE iut,
                                     values  |-> values]))

\* The outer loop over index_under_test.
RECURSIVE find_hidden_twins_from(_, _, _, _, _)
find_hidden_twins_from(b, groups, group_type, i, twins) ==
    IF i >= NumCells THEN twins
    ELSE IF len(b[i]) < 2
    THEN find_hidden_twins_from(b, groups, group_type, i + 1, twins)
    ELSE find_hidden_twins_from(
             b, groups, group_type, i + 1,
             hidden_twins_scan(b, get_peer_indexes(groups, i, group_type), 1, i,
                               {}, twins))

\* The application loop over the twins found.
RECURSIVE apply_hidden_twins_from(_, _, _, _)
apply_hidden_twins_from(b, twins, k, applied_some) ==
    IF k > Len(twins)
    THEN [err |-> FALSE, state |-> b, applied |-> applied_some]
    ELSE LET set_smaller == set_many_at_index(b, twins[k].smaller, twins[k].values)
             set_larger  == set_many_at_index(set_smaller.state, twins[k].larger,
                                              twins[k].values)
         IN  apply_hidden_twins_from(
                 set_larger.state, twins, k + 1,
                 applied_some \/ set_smaller.changed \/ set_larger.changed)

hidden_twins_apply_in_group(b, groups, group_type) ==
    LET twins == find_hidden_twins_from(b, groups, group_type, 0, <<>>)
    IN  IF twins = <<>>
        THEN [err |-> FALSE, state |-> b, applied |-> FALSE]
        ELSE apply_hidden_twins_from(b, twins, 1, FALSE)

(***************************************************************************)
(* Branch selection                                                        *)
(***************************************************************************)
\* Stands for usize::MAX: larger than any sum of candidate counts.
SizeMax == NumCells * NumValues + 1

\* The inner loop: the size of the unsolved part of the peer set of
\* index_under_test and its first smallest unsolved cell.
\* The inner loop without `if index_size <= 1 { continue; }` for solved
\* cells: only empty cells are ignored.
group_scan_with_solved(b, groups, index_under_test) ==
    LET peers    == get_peers_at_index(groups, index_under_test, "IncludeSelf").set
        unsolved == { j \in peers : len(b[j]) > 0 }
        RECURSIVE Sum(_)
        Sum(S) == IF S = {} THEN 0 ELSE len(b[Min(S)]) + Sum(S \ {Min(S)})
        least    == { j \in unsolved : \A k \in unsolved : len(b[j]) <= len(b[k]) }
    IN  [group_size |-> Sum(unsolved),
         index      |-> IF unsolved = {} THEN 0 ELSE Min(least)]

group_scan(b, groups, index_under_test) ==
    LET peers    == get_peers_at_index(groups, index_under_test, "IncludeSelf").set
        unsolved == { j \in peers : len(b[j]) > 1 }
        RECURSIVE Sum(_)
        Sum(S) == IF S = {} THEN 0 ELSE len(b[Min(S)]) + Sum(S \ {Min(S)})
        least    == { j \in unsolved : \A k \in unsolved : len(b[j]) <= len(b[k]) }
    IN  [group_size |-> Sum(unsolved),
         index      |-> IF unsolved = {} THEN 0 ELSE Min(least)]

\* The outer loop keeping the last of the smallest peer sets instead of the
\* first.
RECURSIVE pick_from_last(_, _, _, _)
pick_from_last(b, groups, i, smallest) ==
    IF i >= NumCells THEN smallest
    ELSE LET scan == group_scan(b, groups, i)
         IN  pick_from_last(b, groups, i + 1,
                       IF scan.group_size <= smallest.size /\ scan.group_size > 0
                       THEN [index |-> scan.index, size |-> scan.group_size]
                       ELSE smallest)

RECURSIVE pick_from(_, _, _, _)
pick_from(b, groups, i, smallest) ==
    IF i >= NumCells THEN smallest
    ELSE LET scan == group_scan(b, groups, i)
         IN  pick_from(b, groups, i + 1,
                       IF scan.group_size < smallest.size /\ scan.group_size > 0
                       THEN [index |-> scan.index, size |-> scan.group_size]
                       ELSE smallest)

\* Some(index) or None.
pick_index_to_fork_from(b, groups) ==
    LET smallest == pick_from(b, groups, 0, [index |-> 0, size |-> SizeMax])
    IN  IF smallest.size # SizeMax
        THEN [some |-> TRUE, index |-> smallest.index]
        ELSE [some |-> FALSE, index |-> 0]

(***************************************************************************)
(* Topologies of the model.  Lo and Hi are two regions of NumValues cells  *)
(* each that overlap and together cover the board.                         *)
(***************************************************************************)
Lo == 0..(NumValues - 1)

Hi == (NumCells - NumValues)..(NumCells - 1)

\* Two regions of different types (as a row crossing a column).
TopoRowColumn ==
    << CellGroup("StandardRow", Lo), CellGroup("StandardColumn", Hi) >>

\* Two overlapping regions of one type (custom windows).
TopoWindows ==
    << CellGroup("Custom", Lo), CellGroup("Custom", Hi) >>

\* A block over the whole board crossed by a custom region.
TopoBlock ==
    << CellGroup("StandardBlock", Cells), CellGroup("Custom", Hi) >>

Topologies == {TopoRowColumn, TopoWindows, TopoBlock}

\* GameState::new_from: every cell is open or holds its clue.
new_from_boards ==
    { b \in GameState : \A i \in Cells : b[i] = Values \/ len(b[i]) = 1 }

\* The number of candidates removed from the open board, from index i on.
RECURSIVE forgotten_from(_, _)
forgotten_from(b, i) ==
    IF i >= NumCells THEN 0
    ELSE (NumValues - len(b[i])) + forgotten_from(b, i + 1)

InitialBoards ==
    new_from_boards \cup { b \in GameState : forgotten_from(b, 0) <= MaxForgets }

\* The solver's configuration: which optional strategies are played.
Configs == [hidden_singles : BOOLEAN, naked_twins : BOOLEAN]

AllEnabled == [hidden_singles |-> TRUE, naked_twins |-> TRUE]

(***************************************************************************)
(* DefaultSolver::solve as a state machine.                                *)
(*   groups           the topology the solver was built with               *)
(*   debug            whether the build has debug_assertions               *)
(*   initial          the board the caller passed in                       *)
(*   stack            the search stack (top is the last element)           *)
(*   state            the board of the branch being processed              *)
(*   last_seen_state  the board kept for the Unsolvable error              *)
(*   pc               the position in solve                                *)
(*   result, returned the outcome of solve and the board it carries        *)
(*   config           the strategies the solver was configured with        *)
(*   reference        the outcome of an earlier solve of the same board    *)
(*   call             the board operation a caller invoked, if any         *)
(*   query            the calls made so far on a topology or a position    *)
(*   answer           what the last of these calls returned                *)
(***************************************************************************)
VARIABLES groups, debug, initial, stack, state, last_seen_state, pc, result,
          returned, config, reference, call, query, answer

vars == <<groups, debug, initial, stack, state, last_seen_state, pc, result,
          returned, config, reference, call, query, answer>>

\* No call was made, nothing was returned.
NoQuery == <<>>
NoAnswer == <<>>

\* No board operation was invoked.
NoCall == [op |-> "none", index |-> 0, values |-> {}]

\* The strategy slots of the 'solving loop in program order.
Slots == << "naked_singles",
            "hs_column", "hs_row", "hs_block", "hs_custom",
            "nt_column", "nt_row", "nt_block", "nt_custom" >>

SlotType == [hs_column |-> "StandardColumn", hs_row |-> "StandardRow",
             hs_block  |-> "StandardBlock",  hs_custom |-> "Custom",
             nt_column |-> "StandardColumn", nt_row |-> "StandardRow",
             nt_block  |-> "StandardBlock",  nt_custom |-> "Custom"]

HiddenSinglesSlots == {"hs_column", "hs_row", "hs_block", "hs_custom"}

NakedTwinsSlots == {"nt_column", "nt_row", "nt_block", "nt_custom"}

\* The slot after p, or "post" after the last one (break).
NextSlot(p) ==
    LET k == CHOOSE n \in DOMAIN Slots : Slots[n] = p
    IN  IF k = Len(Slots) THEN "post" ELSE Slots[k + 1]

Init ==
    /\ groups \in Topologies
    /\ debug \in BOOLEAN
    /\ initial \in InitialBoards
    /\ stack = <<initial>>
    /\ last_seen_state = initial
    /\ state = NoState
    /\ pc = "stack"
    /\ result = "none"
    /\ returned = NoState
    /\ config = AllEnabled
    /\ reference = "none"
    /\ call = NoCall
    /\ query = NoQuery
    /\ answer = NoAnswer

Frame == UNCHANGED <<groups, debug, initial, config, reference, call, query,
                     answer>>

\* ReturnUnsolvable carrying the board the caller passed in.
ReturnUnsolvableInitial ==
    /\ pc = "stack"
    /\ stack = <<>>
    /\ pc' = "done"
    /\ result' = "Unsolvable"
    /\ returned' = initial
    /\ UNCHANGED <<stack, state, last_seen_state>>
    /\ Frame

\* while let Some(state) = stack.pop() fails: Err(Unsolvable(last_seen_state)).
ReturnUnsolvable ==
    /\ pc = "stack"
    /\ stack = <<>>
    /\ pc' = "done"
    /\ result' = "Unsolvable"
    /\ returned' = last_seen_state
    /\ UNCHANGED <<stack, state, last_seen_state>>
    /\ Frame

Top == stack[Len(stack)]

Rest == SubSeq(stack, 1, Len(stack) - 1)

\* Pop a board that is_solved: return Ok(state).
PopSolved ==
    /\ pc = "stack"
    /\ stack # <<>>
    /\ is_solved(Top, groups)
    /\ stack' = Rest
    /\ last_seen_state' = Top
    /\ state' = Top
    /\ pc' = "done"
    /\ result' = "Ok"
    /\ returned' = Top
    /\ Frame

\* Pop a board that is not consistent: the branch is ignored.
PopInconsistent ==
    /\ pc = "stack"
    /\ stack # <<>>
    /\ ~is_solved(Top, groups)
    /\ ~is_consistent(Top, groups)
    /\ stack' = Rest
    /\ last_seen_state' = Top
    /\ state' = NoState
    /\ pc' = "stack"
    /\ UNCHANGED <<result, returned>>
    /\ Frame

\* Pop a board and enter the 'solving loop.
PopBranch ==
    /\ pc = "stack"
    /\ stack # <<>>
    /\ ~is_solved(Top, groups)
    /\ is_consistent(Top, groups)
    /\ stack' = Rest
    /\ last_seen_state' = Top
    /\ state' = Top
    /\ pc' = Slots[1]
    /\ UNCHANGED <<result, returned>>
    /\ Frame

\* Whether the strategy of slot p is played under configuration c.
is_enabled(c, p) ==
    IF p \in HiddenSinglesSlots THEN c.hidden_singles
    ELSE IF p \in NakedTwinsSlots THEN c.naked_twins
    ELSE TRUE

\* What the 'solving loop does with the outcome r of the strategy in slot p:
\* the position it goes to next.
AfterStrategy(p, r, restarts) ==
    IF r.err THEN Slots[1]                                   \* continue
    ELSE IF debug /\ ~is_consistent(r.state, groups)
    THEN "stack"                                             \* continue 'stack
    ELSE IF restarts /\ r.applied THEN Slots[1]              \* continue 'solving
    ELSE NextSlot(p)

Played(p, r, restarts) ==
    /\ pc' = AfterStrategy(p, r, restarts)
    /\ state' = IF pc' = "stack" THEN NoState ELSE r.state
    /\ UNCHANGED <<stack, last_seen_state, result, returned>>
    /\ Frame

PlayNakedSingles ==
    /\ pc = "naked_singles"
    /\ \E r \in {play_naked_singles(state, groups)} : Played(pc, r, FALSE)

PlayHiddenSingles ==
    /\ pc \in HiddenSinglesSlots
    /\ is_enabled(config, pc)
    /\ \E r \in {play_hidden_singles_in_group(state, groups, SlotType[pc])} :
         Played(pc, r, TRUE)

PlayNakedTwins ==
    /\ pc \in NakedTwinsSlots
    /\ is_enabled(config, pc)
    /\ \E r \in {play_naked_twins_in_group(state, groups, SlotType[pc])} :
         Played(pc, r, TRUE)

\* After the loop: the propagated board is not consistent.
PostInconsistent ==
    /\ pc = "post"
    /\ ~is_consistent(state, groups)
    /\ pc' = "stack"
    /\ state' = NoState
    /\ UNCHANGED <<stack, last_seen_state, result, returned>>
    /\ Frame

\* After the loop: the propagated board is solved.
PostSolved ==
    /\ pc = "post"
    /\ is_consistent(state, groups)
    /\ is_solved(state, groups)
    /\ pc' = "done"
    /\ result' = "Ok"
    /\ returned' = state
    /\ UNCHANGED <<stack, state, last_seen_state>>
    /\ Frame

\* The two boards of a fork at fork_index: the forked one (the fork value
\* placed and propagated) and the reduced one (the fork value forgotten).
\* fork_value taken from the value range instead of the cell's candidates.
fork_value_of_range(b, fork_index) == Min(Values)

\* fork_value taken from the far end of the candidate iterator.
fork_value_highest(b, fork_index) ==
    CHOOSE v \in b[fork_index] : \A w \in b[fork_index] : w <= v

fork_value(b, fork_index) == first_candidate(b[fork_index])

forked_state(b, fork_index, gs) ==
    place_and_propagate_at_index(b, fork_index, fork_value(b, fork_index), gs).state

\* The reduced board taken from a board shared with the forked one: the fork
\* value is placed and propagated on it before it is forgotten.
reduced_state_shared(b, fork_index) ==
    forget_at_index(forked_state(b, fork_index, groups), fork_index,
                    fork_value(b, fork_index)).state

reduced_state(b, fork_index) ==
    forget_at_index(b, fork_index, fork_value(b, fork_index)).state

\* Whether a debug build panics at the fork: debug_assert!(!is_consistent)
\* when no cell is found (the board is consistent here), and the two
\* debug_asserts on the fork cell.
fork_panics(b, pick) ==
    IF pick.some THEN len(b[pick.index]) <= 1 ELSE TRUE

\* The pushes of a fork with the forked board pushed first.
fork_pushes_forked_first(b, pick, gs) ==
    IF ~pick.some THEN <<>>
    ELSE (IF is_consistent(forked_state(b, pick.index, gs), gs)
          THEN <<forked_state(b, pick.index, gs)>> ELSE <<>>)
         \o <<reduced_state(b, pick.index)>>

\* The pushes of a fork: the reduced board, then the forked one if it is
\* consistent.  Nothing is pushed when no cell is found.
fork_pushes(b, pick, gs) ==
    IF ~pick.some THEN <<>>
    ELSE <<reduced_state(b, pick.index)>>
         \o (IF is_consistent(forked_state(b, pick.index, gs), gs)
             THEN <<forked_state(b, pick.index, gs)>> ELSE <<>>)

\* After the loop: pick the fork cell and fork, or give the branch up when
\* no cell is found.
Fork ==
    /\ pc = "post"
    /\ is_consistent(state, groups)
    /\ ~is_solved(state, groups)
    /\ \E pick \in {pick_index_to_fork_from(state, groups)} :
         /\ pc' = IF debug /\ fork_panics(state, pick) THEN "panic" ELSE "stack"
         /\ stack' = IF pc' = "panic" THEN stack
                     ELSE stack \o fork_pushes(state, pick, groups)
    /\ state' = NoState
    /\ UNCHANGED <<last_seen_state, result, returned>>
    /\ Frame

Next ==
    \/ ReturnUnsolvable
    \/ PopSolved
    \/ PopInconsistent
    \/ PopBranch
    \/ PlayNakedSingles
    \/ PlayHiddenSingles
    \/ PlayNakedTwins
    \/ PostInconsistent
    \/ PostSolved
    \/ Fork

Spec == Init /\ [][Next]_vars

\* solve runs without interruption: every step that can be taken is taken.
Fairness ==
    /\ WF_vars(ReturnUnsolvable)
    /\ WF_vars(PopSolved)
    /\ WF_vars(PopInconsistent)
    /\ WF_vars(PopBranch)
    /\ WF_vars(PlayNakedSingles)
    /\ WF_vars(PlayHiddenSingles)
    /\ WF_vars(PlayNakedTwins)
    /\ WF_vars(PostInconsistent)
    /\ WF_vars(PostSolved)
    /\ WF_vars(Fork)

FairSpec == Spec /\ Fairness

(***************************************************************************)
(* The configurable solver.  A caller solves a board with a solver built   *)
(* with some configuration (DefaultSolver::new_with) and then solves the   *)
(* same board again with every strategy enabled.  The 'solving loop skips  *)
(* a disabled strategy and goes on with the next one.                      *)
(***************************************************************************)
ConfigInit ==
    /\ groups \in Topologies
    /\ debug \in BOOLEAN
    /\ initial \in InitialBoards
    /\ stack = <<initial>>
    /\ last_seen_state = initial
    /\ state = NoState
    /\ pc = "stack"
    /\ result = "none"
    /\ returned = NoState
    /\ config \in Configs
    /\ reference = "none"
    /\ call = NoCall
    /\ query = NoQuery
    /\ answer = NoAnswer

SkipDisabled ==
    /\ pc \in HiddenSinglesSlots \cup NakedTwinsSlots
    /\ ~is_enabled(config, pc)
    /\ pc' = NextSlot(pc)
    /\ UNCHANGED <<stack, state, last_seen_state, result, returned>>
    /\ Frame

\* The first solve has returned: keep its outcome and solve the same board
\* with every strategy enabled.
Rerun ==
    /\ pc = "done"
    /\ reference = "none"
    /\ reference' = result
    /\ config' = AllEnabled
    /\ stack' = <<initial>>
    /\ last_seen_state' = initial
    /\ state' = NoState
    /\ pc' = "stack"
    /\ result' = "none"
    /\ returned' = NoState
    /\ UNCHANGED <<groups, debug, initial, call, query, answer>>

ConfigNext ==
    \/ Next
    \/ SkipDisabled
    \/ Rerun

ConfigSpec == ConfigInit /\ [][ConfigNext]_vars

(***************************************************************************)
(* The strategies on their own: one strategy is applied to a board, and    *)
(* naked singles may be applied a second time right after the first.       *)
(*   initial   the board before the first application                      *)
(*   state     the board as the latest application left it                 *)
(*   returned  the board as the first application left it                  *)
(*   result    what the latest application returned                        *)
(***************************************************************************)
StrategyResult(r) ==
    IF r.err THEN "InvalidState"
    ELSE IF r.applied THEN "AppliedChange" ELSE "NoChange"

StrategyInit ==
    /\ groups \in Topologies
    /\ debug = FALSE
    /\ initial \in InitialBoards
    /\ stack = <<>>
    /\ last_seen_state = initial
    /\ state = initial
    /\ pc = "apply"
    /\ result = "none"
    /\ returned = NoState
    /\ config = AllEnabled
    /\ reference = "none"
    /\ call = NoCall
    /\ query = NoQuery
    /\ answer = NoAnswer

ApplyNakedSingles ==
    /\ pc = "apply"
    /\ \E r \in {play_naked_singles(state, groups)} :
         /\ state' = r.state
         /\ returned' = r.state
         /\ result' = StrategyResult(r)
    /\ pc' = "naked_singles_once"
    /\ UNCHANGED <<stack, last_seen_state>>
    /\ Frame

ApplyNakedSinglesAgain ==
    /\ pc = "naked_singles_once"
    /\ \E r \in {play_naked_singles(state, groups)} :
         /\ state' = r.state
         /\ result' = StrategyResult(r)
    /\ pc' = "naked_singles_twice"
    /\ UNCHANGED <<stack, last_seen_state, returned>>
    /\ Frame

\* Naked twins applied for one group type; pc names the slot of that type.
ApplyNakedTwins ==
    /\ pc = "apply"
    /\ \E p \in NakedTwinsSlots :
         /\ pc' = p
         /\ \E r \in {play_naked_twins_in_group(state, groups, SlotType[p])} :
              /\ state' = r.state
              /\ returned' = r.state
              /\ result' = StrategyResult(r)
    /\ UNCHANGED <<stack, last_seen_state>>
    /\ Frame

\* Hidden twins applied for one group type; pc names the slot of that type.
HiddenTwinsSlotType ==
    [ht_custom |-> "Custom", ht_block |-> "StandardBlock",
     ht_row |-> "StandardRow", ht_column |-> "StandardColumn"]

ApplyHiddenTwins ==
    /\ pc = "apply"
    /\ \E p \in DOMAIN HiddenTwinsSlotType :
         /\ pc' = p
         /\ \E r \in {hidden_twins_apply_in_group(state, groups,
                                                  HiddenTwinsSlotType[p])} :
              /\ state' = r.state
              /\ returned' = r.state
              /\ result' = StrategyResult(r)
    /\ UNCHANGED <<stack, last_seen_state>>
    /\ Frame

StrategyNext ==
    \/ ApplyNakedSingles
    \/ ApplyNakedSinglesAgain
    \/ ApplyNakedTwins
    \/ ApplyHiddenTwins

StrategySpec == StrategyInit /\ [][StrategyNext]_vars

(***************************************************************************)
(* The board operations on their own: a caller invokes one operation of    *)
(* GameState on a board.                                                   *)
(*   initial   the board before the call                                   *)
(*   state     the board after the call                                    *)
(*   call      the operation and its arguments                             *)
(*   result    "true" or "false" as returned, or "panic"                   *)
(***************************************************************************)
StateInit ==
    /\ groups \in Topologies
    /\ debug \in BOOLEAN
    /\ initial \in InitialBoards
    /\ stack = <<>>
    /\ last_seen_state = initial
    /\ state = initial
    /\ pc = "call"
    /\ result = "none"
    /\ returned = NoState
    /\ config = AllEnabled
    /\ reference = "none"
    /\ call = NoCall
    /\ query = NoQuery
    /\ answer = NoAnswer

Flag(changed) == IF changed THEN "true" ELSE "false"

\* The call returns r, or panics and leaves the board as it was.
Returns(op, index, values, panics, r) ==
    /\ call' = [op |-> op, index |-> index, values |-> values]
    /\ result' = IF panics THEN "panic" ELSE Flag(r.changed)
    /\ state' = IF panics THEN state ELSE r.state
    /\ pc' = "returned"
    /\ UNCHANGED <<groups, debug, initial, stack, last_seen_state, returned,
                   config, reference, query, answer>>

SetAtIndex ==
    /\ pc = "call"
    /\ \E index \in Cells, value \in Values :
         Returns("set_at_index", index, {value},
                 debug /\ set_at_index_asserts(state, index, value),
                 set_at_index(state, index, value))

\* .expect("group does not exist at index") panics in every build.
PlaceAndPropagateAtIndex ==
    /\ pc = "call"
    /\ \E index \in Cells, value \in Values :
         Returns("place_and_propagate_at_index", index, {value},
                 \/ debug /\ set_at_index_asserts(state, index, value)
                 \/ get_peers_at_index(groups, index, "ExcludeSelf").err,
                 place_and_propagate_at_index(state, index, value, groups))

ForgetAtIndex ==
    /\ pc = "call"
    /\ \E index \in Cells, value \in Values :
         Returns("forget_at_index", index, {value}, FALSE,
                 forget_at_index(state, index, value))

ForgetManyAtIndex ==
    /\ pc = "call"
    /\ \E index \in Cells, values \in ValueBitSet :
         Returns("forget_many_at_index", index, values, FALSE,
                 forget_many_at_index(state, index, values))

\* is_consistent reads the board; every cell of the topologies here is in a
\* group, so its unwrap() succeeds.
IsConsistent ==
    /\ pc = "call"
    /\ Returns("is_consistent", 0, {}, FALSE,
               [state |-> state, changed |-> is_consistent(state, groups)])

\* is_exactly of the cell at an index reads the board.
IsExactly ==
    /\ pc = "call"
    /\ \E index \in Cells, value \in Values :
         Returns("is_exactly", index, {value}, FALSE,
                 [state |-> state,
                  changed |-> is_exactly(state[index], value)])

\* Branch selection reads the board and returns Some(index) or None.
PickIndexToForkFrom ==
    /\ pc = "call"
    /\ call' = [op |-> "pick_index_to_fork_from", index |-> 0, values |-> {}]
    /\ answer' = pick_index_to_fork_from(state, groups)
    /\ pc' = "returned"
    /\ UNCHANGED <<groups, debug, initial, stack, state, last_seen_state,
                   result, returned, config, reference, query>>

StateNext ==
    \/ PickIndexToForkFrom
    \/ SetAtIndex
    \/ PlaceAndPropagateAtIndex
    \/ ForgetAtIndex
    \/ ForgetManyAtIndex
    \/ IsConsistent
    \/ IsExactly

StateSpec == StateInit /\ [][StateNext]_vars

(***************************************************************************)
(* Peer queries on their own: a caller asks a topology for the peers of an *)
(* index.  A topology is any list of groups; add_group accepts every       *)
(* group, also one with a single index or none.                            *)
(*   groups    the topology                                                *)
(*   query     the call, with its index and mode                           *)
(*   answer    the Result returned                                         *)
(***************************************************************************)
CollectIndexes == {"ExcludeSelf", "IncludeSelf"}

PeerTopologies ==
    Topologies \cup { <<CellGroup("Custom", s)>> : s \in SUBSET Cells }

\* The variables a query leaves alone.
QueryFrame ==
    UNCHANGED <<debug, initial, stack, state, last_seen_state, pc, result,
                returned, config, reference, call>>

PeersInit ==
    /\ groups \in PeerTopologies
    /\ debug = FALSE
    /\ initial = NoState
    /\ stack = <<>>
    /\ last_seen_state = NoState
    /\ state = NoState
    /\ pc = "query"
    /\ result = "none"
    /\ returned = NoState
    /\ config = AllEnabled
    /\ reference = "none"
    /\ call = NoCall
    /\ query = NoQuery
    /\ answer = NoAnswer

GetPeersAtIndex ==
    /\ query = NoQuery
    /\ \E index \in Cells, mode \in CollectIndexes :
         /\ query' = <<[op |-> "get_peers_at_index", index |-> index,
                        mode |-> mode]>>
         /\ answer' = get_peers_at_index(groups, index, mode)
    /\ UNCHANGED groups
    /\ QueryFrame

PeersNext == GetPeersAtIndex

PeersSpec == PeersInit /\ [][PeersNext]_vars

(***************************************************************************)
(* Positions on the full 9x9 board: Index and Coordinate and the           *)
(* conversions between them, in u8 arithmetic.                             *)
(*   query     the conversions made so far, each with its argument         *)
(*   answer    what the last conversion returned                           *)
(***************************************************************************)
GAME_WIDTH == 9
GAME_HEIGHT == 9
IndexCount == 81
U8 == 256

Index == 0 .. IndexCount - 1
Coordinate == [x : 0 .. GAME_WIDTH - 1, y : 0 .. GAME_HEIGHT - 1]

into_coordinate(index) ==
    [x |-> index % GAME_WIDTH, y |-> index \div GAME_WIDTH]

\* into_index with the axes exchanged.
into_index_transposed(coord) == (coord.x * GAME_WIDTH + coord.y) % U8

into_index(coord) == (coord.y * GAME_WIDTH + coord.x) % U8

\* The variables no query touches have the values of an idle solver.
QueryInit ==
    /\ debug = FALSE
    /\ initial = NoState
    /\ stack = <<>>
    /\ last_seen_state = NoState
    /\ state = NoState
    /\ pc = "query"
    /\ result = "none"
    /\ returned = NoState
    /\ config = AllEnabled
    /\ reference = "none"
    /\ call = NoCall
    /\ query = NoQuery
    /\ answer = NoAnswer

CoordInit == QueryInit /\ groups = <<>>

\* The arguments a conversion may be given: any value of its input type at
\* first, then what the opposite conversion returned.
Arguments(type, opposite) ==
    IF query = NoQuery THEN type
    ELSE IF query[Len(query)].op = opposite THEN {answer}
    ELSE {}

IntoCoordinate ==
    /\ Len(query) < 2
    /\ \E index \in Arguments(Index, "into_index") :
         /\ query' = Append(query, [op |-> "into_coordinate", arg |-> index])
         /\ answer' = into_coordinate(index)
    /\ UNCHANGED groups
    /\ QueryFrame

IntoIndex ==
    /\ Len(query) < 2
    /\ \E coord \in Arguments(Coordinate, "into_coordinate") :
         /\ query' = Append(query, [op |-> "into_index", arg |-> coord])
         /\ answer' = into_index(coord)
    /\ UNCHANGED groups
    /\ QueryFrame

CoordNext ==
    \/ IntoCoordinate
    \/ IntoIndex

CoordSpec == CoordInit /\ [][CoordNext]_vars

(***************************************************************************)
(* Building a topology for the 9x9 board: any sequence of                  *)
(* with_default_sudoku_blocks, with_default_rows_and_columns and           *)
(* with_group for a group without an id.  Here a group carries its id.     *)
(*   groups    the topology built so far                                   *)
(*   query     the builder calls made so far                               *)
(***************************************************************************)
\* Option<usize>::None as a group id.
NoId == -1

Max(S) == CHOOSE x \in S : \A y \in S : y <= x

get_highest_id(gs) ==
    LET ids == { gs[k].id : k \in DOMAIN gs } \ {NoId}
    IN  IF ids = {} THEN 0 ELSE Max(ids)

add_group(gs, group) ==
    Append(gs, IF group.id = NoId
               THEN [group EXCEPT !.id = get_highest_id(gs) + 1]
               ELSE group)

\* CellGroup::new(id, group_type) followed by add_index for each index.
new_group(id, group_type, indexes) ==
    [id |-> id, group_type |-> group_type, indexes |-> indexes]

\* Row y is created with the id counter as it stands, which is incremented
\* only afterwards.
RECURSIVE with_default_rows_from(_, _, _)
with_default_rows_from(gs, ids, y) ==
    IF y = GAME_HEIGHT THEN gs
    ELSE with_default_rows_from(
             add_group(gs, new_group(ids, "StandardRow",
                 { into_index([x |-> x, y |-> y]) : x \in 0 .. GAME_WIDTH - 1 })),
             ids + 1, y + 1)

with_default_rows(gs) == with_default_rows_from(gs, get_highest_id(gs), 0)

\* Column x is created after the id counter was incremented.
RECURSIVE with_default_columns_from(_, _, _)
with_default_columns_from(gs, ids, x) ==
    IF x = GAME_WIDTH THEN gs
    ELSE with_default_columns_from(
             add_group(gs, new_group(ids + 1, "StandardColumn",
                 { into_index([x |-> x, y |-> y]) : y \in 0 .. GAME_HEIGHT - 1 })),
             ids + 1, x + 1)

with_default_columns(gs) ==
    with_default_columns_from(gs, get_highest_id(gs), 0)

with_default_rows_and_columns(gs) ==
    with_default_columns(with_default_rows(gs))

BlockWidth == 3

\* The blocks in the order of the two step_by(3) loops, y outermost; block n
\* is created after the id counter was incremented.
RECURSIVE with_default_sudoku_blocks_from(_, _, _)
with_default_sudoku_blocks_from(gs, ids, n) ==
    IF n = (GAME_HEIGHT \div BlockWidth) * (GAME_WIDTH \div BlockWidth) THEN gs
    ELSE LET x == (n % (GAME_WIDTH \div BlockWidth)) * BlockWidth
             y == (n \div (GAME_WIDTH \div BlockWidth)) * BlockWidth
         IN  with_default_sudoku_blocks_from(
                 add_group(gs, new_group(ids + 1, "StandardBlock",
                     { into_index([x |-> x + col, y |-> y + row]) :
                         col \in 0 .. BlockWidth - 1, row \in 0 .. BlockWidth - 1 })),
                 ids + 1, n + 1)

with_default_sudoku_blocks(gs) ==
    with_default_sudoku_blocks_from(gs, get_highest_id(gs), 0)

\* The index lists of the four Hypersudoku windows, the custom groups the
\* crate itself registers.
HypersudokuWindows ==
    << {10, 11, 12, 19, 20, 21, 28, 29, 30},
       {14, 15, 16, 23, 24, 25, 32, 33, 34},
       {46, 47, 48, 55, 56, 57, 64, 65, 66},
       {50, 51, 52, 59, 60, 61, 68, 69, 70} >>

\* CellGroup::from_iter leaves the id unset and the type Custom.
with_group_from_iter(gs, indexes) ==
    add_group(gs, new_group(NoId, "Custom", indexes))

BuilderInit == QueryInit /\ groups = <<>>

Built(op, gs) ==
    /\ Len(query) < MaxBuildSteps
    /\ groups' = gs
    /\ query' = Append(query, [op |-> op])
    /\ UNCHANGED answer
    /\ QueryFrame

WithDefaultSudokuBlocks ==
    Built("with_default_sudoku_blocks", with_default_sudoku_blocks(groups))

WithDefaultRowsAndColumns ==
    Built("with_default_rows_and_columns",
          with_default_rows_and_columns(groups))

WithGroup ==
    \E w \in DOMAIN HypersudokuWindows :
       Built("with_group", with_group_from_iter(groups, HypersudokuWindows[w]))

BuilderNext ==
    \/ WithDefaultSudokuBlocks
    \/ WithDefaultRowsAndColumns
    \/ WithGroup

BuilderSpec == BuilderInit /\ [][BuilderNext]_vars

(***************************************************************************)
(* Hidden singles step by step: one call of play_hidden_singles_in_group,  *)
(* one action per iteration of its loop over the indexes.                  *)
(*   pc        the position of the strategy, which gives the group type    *)
(*   call      the call and the index the loop has reached                 *)
(*   state     the board, mutated as the loop goes                         *)
(*   result    applied_some so far                                         *)
(***************************************************************************)
HiddenSinglesInit ==
    /\ groups \in Topologies
    /\ debug = FALSE
    /\ initial \in InitialBoards
    /\ stack = <<>>
    /\ last_seen_state = initial
    /\ state = initial
    /\ pc \in HiddenSinglesSlots
    /\ result = "false"
    /\ returned = NoState
    /\ config = AllEnabled
    /\ reference = "none"
    /\ call = [op |-> "play_hidden_singles_in_group", index |-> 0, values |-> {}]
    /\ query = NoQuery
    /\ answer = NoAnswer

HiddenSinglesVisit ==
    /\ pc \in HiddenSinglesSlots
    /\ call.index < NumCells
    /\ \E v \in {hidden_singles_visit(state, groups, SlotType[pc], call.index)} :
         /\ state' = v.state
         /\ result' = IF v.changed THEN "true" ELSE result
    /\ call' = [call EXCEPT !.index = @ + 1]
    /\ UNCHANGED <<groups, debug, initial, stack, last_seen_state, pc,
                   returned, config, reference, query, answer>>

HiddenSinglesReturn ==
    /\ pc \in HiddenSinglesSlots
    /\ call.index = NumCells
    /\ pc' = "returned"
    /\ UNCHANGED <<groups, debug, initial, stack, state, last_seen_state,
                   result, returned, config, reference, call, query, answer>>

HiddenSinglesNext ==
    \/ HiddenSinglesVisit
    \/ HiddenSinglesReturn

HiddenSinglesSpec == HiddenSinglesInit /\ [][HiddenSinglesNext]_vars

(***************************************************************************)
(* XWing::apply on the full 9x9 board with the standard topology.  The     *)
(* boards have a window of XWingColumns x XWingRows cells in the top left  *)
(* corner, open or solved; every other cell is solved.                     *)
(*   initial   the board before the call                                   *)
(*   state     the board after the call                                    *)
(*   result    the StrategyResult returned                                 *)
(***************************************************************************)
\* Value::range(): the values in ascending order.
value_range == IterIndexes(Values)

\* The cells that are not solved and contain the value under test.
xwing_indexes(b, value) ==
    { index \in Index : ~is_solved_cell(b[index]) /\ value \in b[index] }

\* The four counts of a rectangle with top left corner tl and bottom right
\* corner (x, y): matches in its two rows and its two columns.
xwing_counts(indexes, tl, x, y) ==
    [top    |-> Cardinality({ c \in 0 .. GAME_WIDTH - 1 :
                    into_index([x |-> c, y |-> tl.y]) \in indexes }),
     bottom |-> Cardinality({ c \in 0 .. GAME_WIDTH - 1 :
                    into_index([x |-> c, y |-> y]) \in indexes }),
     left   |-> Cardinality({ r \in 0 .. GAME_HEIGHT - 1 :
                    into_index([x |-> tl.x, y |-> r]) \in indexes }),
     right  |-> Cardinality({ r \in 0 .. GAME_HEIGHT - 1 :
                    into_index([x |-> x, y |-> r]) \in indexes })]

\* Whether the scan pushes the rectangle with top left corner tl and bottom
\* right corner (x, y).
xwing_found(indexes, tl, x, y) ==
    /\ into_index([x |-> x, y |-> tl.y]) \in indexes
    /\ into_index([x |-> tl.x, y |-> y]) \in indexes
    /\ into_index([x |-> x, y |-> y]) \in indexes
    /\ LET n == xwing_counts(indexes, tl, x, y)
       IN  (n.left = 2 /\ n.right = 2) \/ (n.top = 2 /\ n.bottom = 2)

\* The rectangles of one value, in the order of the three loops: the top
\* left corner ascending, then x, then y.
RECURSIVE xwing_in_order(_)
xwing_in_order(S) ==
    IF S = {} THEN <<>>
    ELSE LET key(r) == << r.top_left, r.bottom_right % GAME_WIDTH,
                          r.bottom_right \div GAME_WIDTH >>
             before(q, r) ==
                 \/ key(q)[1] < key(r)[1]
                 \/ key(q)[1] = key(r)[1] /\ key(q)[2] < key(r)[2]
                 \/ key(q)[1] = key(r)[1] /\ key(q)[2] = key(r)[2]
                      /\ key(q)[3] <= key(r)[3]
             first == CHOOSE r \in S : \A q \in S : before(r, q)
         IN  <<first>> \o xwing_in_order(S \ {first})

xwing_rectangles(indexes, value) ==
    xwing_in_order(
        UNION { UNION { { [value        |-> value,
                           top_left     |-> tl,
                           top_right    |-> into_index([x |-> x, y |-> into_coordinate(tl).y]),
                           bottom_left  |-> into_index([x |-> into_coordinate(tl).x, y |-> y]),
                           bottom_right |-> into_index([x |-> x, y |-> y])] :
                          y \in { r \in (into_coordinate(tl).y + 1) .. (GAME_HEIGHT - 1) :
                                    xwing_found(indexes, into_coordinate(tl), x, r) } } :
                        x \in (into_coordinate(tl).x + 1) .. (GAME_WIDTH - 1) } :
                tl \in indexes })

\* The scan over the values from position k of value_range on: the
\* rectangles pushed, and whether the function returned NoChange out of the
\* loop because a value has fewer than four matching cells.
RECURSIVE xwing_scan_from(_, _, _)
xwing_scan_from(b, k, xwings) ==
    IF k > Len(value_range) THEN [returned |-> FALSE, xwings |-> xwings]
    ELSE LET indexes == xwing_indexes(b, value_range[k])
         IN  IF Cardinality(indexes) < 4
             THEN [returned |-> TRUE, xwings |-> xwings]
             ELSE xwing_scan_from(b, k + 1,
                      xwings \o xwing_rectangles(indexes, value_range[k]))

\* The indexes one of the four elimination loops visits.
xwing_line(gs, corner, other, group_type) ==
    LET peers == get_peer_indexes(gs, corner, group_type)
    IN  { peers[n] : n \in DOMAIN peers } \ {corner, other}

\* forget_at_index of the value at each of the given indexes.
xwing_forget_at(b, targets, value) ==
    [state   |-> [j \in DOMAIN b |->
                    IF j \in targets
                    THEN forget_at_index(b, j, value).state[j]
                    ELSE b[j]],
     changed |-> \E j \in targets : value \in b[j]]

\* The four elimination loops of one rectangle.
xwing_forget(b, gs, xwing) ==
    \* top row, bottom row, left column, right column
    xwing_forget_at(
        b,
        xwing_line(gs, xwing.top_left, xwing.top_right, "StandardRow")
           \cup xwing_line(gs, xwing.bottom_left, xwing.bottom_right,
                           "StandardRow")
           \cup xwing_line(gs, xwing.top_left, xwing.bottom_left,
                           "StandardColumn")
           \cup xwing_line(gs, xwing.top_right, xwing.bottom_right,
                           "StandardColumn"),
        xwing.value)

RECURSIVE xwing_forget_from(_, _, _, _, _)
xwing_forget_from(b, gs, xwings, k, applied_some) ==
    IF k > Len(xwings)
    THEN [err |-> FALSE, state |-> b, applied |-> applied_some]
    ELSE LET f == xwing_forget(b, gs, xwings[k])
         IN  xwing_forget_from(f.state, gs, xwings, k + 1,
                               applied_some \/ f.changed)

xwing_apply(b, gs) ==
    LET scan == xwing_scan_from(b, 1, <<>>)
    IN  IF scan.returned \/ scan.xwings = <<>>
        THEN [err |-> FALSE, state |-> b, applied |-> FALSE]
        ELSE xwing_forget_from(b, gs, scan.xwings, 1, FALSE)

\* The topology of the classic game, as the example games build it.
StandardTopology ==
    with_default_rows_and_columns(with_default_sudoku_blocks(<<>>))

XWingWindow ==
    { into_index([x |-> x, y |-> y]) :
        x \in 0 .. XWingColumns - 1, y \in 0 .. XWingRows - 1 }

\* What a cell of the window may hold: any two or more candidates, or the
\* lowest value alone.
XWingCandidates ==
    { s \in ValueBitSet : Cardinality(s) >= 2 } \cup {{Min(Values)}}

XWingBoards ==
    { [i \in Index |-> IF i \in XWingWindow THEN w[i] ELSE {NumValues}] :
        w \in [XWingWindow -> XWingCandidates] }

XWingInit ==
    /\ groups = StandardTopology
    /\ debug = FALSE
    /\ initial \in XWingBoards
    /\ stack = <<>>
    /\ last_seen_state = initial
    /\ state = initial
    /\ pc = "apply"
    /\ result = "none"
    /\ returned = NoState
    /\ config = AllEnabled
    /\ reference = "none"
    /\ call = NoCall
    /\ query = NoQuery
    /\ answer = NoAnswer

ApplyXWing ==
    /\ pc = "apply"
    /\ pc' = "xwing"
    /\ \E r \in {xwing_apply(state, groups)} :
         /\ state' = r.state
         /\ result' = StrategyResult(r)
    /\ UNCHANGED <<stack, last_seen_state, returned>>
    /\ Frame

XWingNext == ApplyXWing

XWingSpec == XWingInit /\ [][XWingNext]_vars

(***************************************************************************)
(* Vocabulary of the properties                                            *)
(***************************************************************************)
\* The valid completions of a board: one value per cell chosen from the
\* cell's candidates, all values distinct within every group.
Completions(b, gs) ==
    { f \in [Cells -> Values] :
        /\ \A i \in Cells : f[i] \in b[i]
        /\ \A k \in DOMAIN gs :
             \A i, j \in gs[k].indexes : i # j => f[i] # f[j] }

\* Every cell belongs to a group and every group has as many cells as there
\* are values.
NiceTopology(gs) ==
    /\ \A i \in Cells : \E k \in DOMAIN gs : i \in gs[k].indexes
    /\ \A k \in DOMAIN gs : Cardinality(gs[k].indexes) = NumValues

\* b has, cell by cell, a subset of the candidates of a.
Within(b, a) == \A i \in Cells : b[i] \subseteq a[i]

SlotSet == { Slots[n] : n \in DOMAIN Slots }

(***************************************************************************)
(* Properties of solve                                                     *)
(***************************************************************************)
\* C1: whenever solve returns Ok(board), every cell of the board has exactly
\* one candidate and any two distinct cells of a group hold different values.
C1_SolvedInvariant ==
    result = "Ok" =>
        /\ \A i \in Cells : Cardinality(returned[i]) = 1
        /\ \A k \in DOMAIN groups :
             \A i, j \in groups[k].indexes : i # j => returned[i] # returned[j]

\* A solution was returned after the search had forked.
C1_Witness ==
    /\ result = "Ok"
    /\ returned # initial
    /\ stack # <<>>

\* C2: search completeness.  For a topology in which every cell is in a group
\* and every group has as many cells as there are values, a solve that has
\* returned has returned Ok exactly if the initial board has a valid
\* completion: Unsolvable is returned only when there is none.
C2_SearchCompleteness ==
    (NiceTopology(groups) /\ pc = "done") =>
        (result = "Ok" <=> Completions(initial, groups) # {})

\* C3: solve terminates: it eventually returns a solved board or Unsolvable.
C3_Termination == <>(result \in {"Ok", "Unsolvable"})

\* C4: when a strategy fails with InvalidState, propagation of the branch
\* stops and the branch is discarded without being forked: the next step of
\* the solver is at the top of the stack loop, with the stack as it was.
C4_InvalidStateDiscardsBranch ==
    [][ ( /\ pc \in NakedTwinsSlots
          /\ play_naked_twins_in_group(state, groups, SlotType[pc]).err )
        => (pc' = "stack" /\ stack' = stack) ]_vars

\* C5: when solve returns Unsolvable(b) the stack is empty and b is the board
\* most recently popped, as it was when it was popped (last_seen_state is set
\* by every pop and by nothing else); b is the initial board if that board is
\* inconsistent.
C5_UnsolvableCarriesLastPopped ==
    /\ [](result = "Unsolvable" =>
            /\ stack = <<>>
            /\ returned = last_seen_state
            /\ (~is_consistent(initial, groups) => returned = initial))
    /\ [][ IF Len(stack') < Len(stack)
           THEN last_seen_state' = stack[Len(stack)]
           ELSE last_seen_state' = last_seen_state ]_vars

\* Unsolvable was returned with a board other than the initial one.
C5_Witness ==
    /\ result = "Unsolvable"
    /\ returned # initial
    /\ is_consistent(initial, groups)

\* C6: candidate monotonicity.  A strategy application leaves every cell with
\* a subset of its candidates, every board a fork pushes has cell by cell a
\* subset of the candidates of the board it was derived from, and a pop hands
\* the board over as it was pushed.
C6_CandidateMonotonicity ==
    [][ /\ pc \in SlotSet => Within(state', state)
        /\ pc = "post" =>
             /\ SubSeq(stack', 1, Len(stack)) = stack
             /\ \A k \in (Len(stack) + 1)..Len(stack') : Within(stack'[k], state)
        /\ (pc = "stack" /\ stack # <<>>) =>
             /\ stack' = SubSeq(stack, 1, Len(stack) - 1)
             /\ state' \in {stack[Len(stack)], NoState} ]_vars

\* A fork has pushed both of its boards, each with fewer candidates than the
\* initial board.
C6_Witness ==
    /\ pc = "stack"
    /\ Len(stack) >= 2
    /\ \A k \in DOMAIN stack : Within(stack[k], initial) /\ stack[k] # initial

\* C7: a board returned as a solution respects the puzzle: the value of
\* every cell is one of the cell's candidates in the initial board.
C7_SolutionRespectsClues ==
    result = "Ok" => \A i \in Cells : returned[i] \subseteq initial[i]

\* A solution was returned for a board with a clue and an unsolved cell.
C7_Witness ==
    /\ result = "Ok"
    /\ \E i \in Cells : len(initial[i]) = 1
    /\ \E j \in Cells : len(initial[j]) > 1

\* C8: for every configuration of the optional strategies, solve returns a
\* solution exactly if it returns one with every strategy enabled, and a
\* solution it returns satisfies the solved invariant.
C8_ConfigurationEquivalence ==
    /\ (pc = "done" /\ reference # "none") =>
          (result = "Ok" <=> reference = "Ok")
    /\ result = "Ok" =>
          /\ \A i \in Cells : Cardinality(returned[i]) = 1
          /\ \A k \in DOMAIN groups :
               \A i, j \in groups[k].indexes : i # j => returned[i] # returned[j]

(***************************************************************************)
(* Properties of the strategies                                            *)
(***************************************************************************)
\* C9: naked singles idempotence.  A second application right after the
\* first leaves the board as the first left it and reports NoChange.
C9_NakedSinglesIdempotent ==
    pc = "naked_singles_twice" => (state = returned /\ result = "NoChange")

\* Some single group of the type holds one two-candidate set in at least
\* three of its cells.
ThreeEqualPairsInOneGroup(b, gs, group_type) ==
    \E k \in DOMAIN gs :
        /\ gs[k].group_type = group_type
        /\ \E pair \in ValueBitSet :
             /\ Cardinality(pair) = 2
             /\ Cardinality({ i \in gs[k].indexes : b[i] = pair }) >= 3

\* C10: naked twins applied for a group type fails with InvalidState exactly
\* if some single group of that type contains at least three cells holding
\* one identical two-candidate set.
C10_InvalidStateIffThreeInOneGroup ==
    pc \in NakedTwinsSlots =>
        (result = "InvalidState"
            <=> ThreeEqualPairsInOneGroup(initial, groups, SlotType[pc]))

\* C11: hidden twins applied to a board on which three cells of one group
\* share an identical two-value candidate set reports InvalidState.
C11_HiddenTwinsReportsInvalidState ==
    ( /\ pc \in DOMAIN HiddenTwinsSlotType
      /\ ThreeEqualPairsInOneGroup(initial, groups, HiddenTwinsSlotType[pc]) )
    => result = "InvalidState"

(***************************************************************************)
(* Properties of the board operations                                      *)
(***************************************************************************)
\* C12: set_at_index(i, v) on a cell solved with another value fails loudly
\* and leaves the cell as it was; on a cell that is exactly {v} it changes
\* nothing and returns false.
C12_SetRejectsOverwrite ==
    (pc = "returned" /\ call.op = "set_at_index") =>
        /\ ( is_solved_cell(initial[call.index])
             /\ initial[call.index] # call.values )
           => (result = "panic" /\ state = initial)
        /\ initial[call.index] = call.values
           => (result = "false" /\ state = initial)

\* C13: after place_and_propagate_at_index(i, v) on a cell not solved with
\* another value, the cell holds exactly {v}, no peer has v, peers lose no
\* other candidate and every other cell is unchanged.
C13_PlaceAndPropagatePostcondition ==
    ( /\ pc = "returned"
      /\ call.op = "place_and_propagate_at_index"
      /\ ~( is_solved_cell(initial[call.index])
            /\ initial[call.index] # call.values ) )
    => LET peers == UNION { groups[k].indexes :
                              k \in { n \in DOMAIN groups :
                                        call.index \in groups[n].indexes } }
                       \ {call.index}
       IN  /\ state[call.index] = call.values
           /\ \A p \in peers : state[p] = initial[p] \ call.values
           /\ \A j \in Cells \ (peers \cup {call.index}) : state[j] = initial[j]

\* C13 restricted to cells that hold at least one candidate before the call.
C13_NonEmptyCellPostcondition ==
    initial[call.index] # {} => C13_PlaceAndPropagatePostcondition

\* C14: change reporting is exact: each of the four operations returns true
\* exactly if the board after the call differs from the board before it, and
\* the forget operations modify no cell other than the addressed one.
C14_ChangeReportingExact ==
    ( /\ pc = "returned"
      /\ result # "panic"
      /\ call.op \in {"place_and_propagate_at_index", "set_at_index",
                      "forget_at_index", "forget_many_at_index"} ) =>
        /\ (result = "true") <=> (state # initial)
        /\ call.op \in {"forget_at_index", "forget_many_at_index"}
           => \A j \in Cells \ {call.index} : state[j] = initial[j]

\* place_and_propagate_at_index reported a change that touched peers only.
C14_Witness ==
    /\ pc = "returned"
    /\ call.op = "place_and_propagate_at_index"
    /\ result = "true"
    /\ state[call.index] = initial[call.index]
    /\ state # initial

\* Two distinct cells of a common group hold the same singleton value.
SameSingleInCommonGroup(b, gs) ==
    \E k \in DOMAIN gs :
       \E i, j \in gs[k].indexes :
          i # j /\ Cardinality(b[i]) = 1 /\ b[i] = b[j]

\* C15: is_consistent returns true exactly if no cell has an empty candidate
\* set and no two distinct cells of a common group hold the same singleton
\* value; unsolved cells never make it return false.
C15_IsConsistentExact ==
    (pc = "returned" /\ call.op = "is_consistent") =>
        ( (result = "true") <=>
            /\ \A i \in Cells : initial[i] # {}
            /\ ~SameSingleInCommonGroup(initial, groups) )

\* is_consistent returned false for a duplicated single on a board that has
\* unsolved cells and no empty cell.
C15_Witness ==
    /\ pc = "returned"
    /\ call.op = "is_consistent"
    /\ result = "false"
    /\ \A i \in Cells : initial[i] # {}
    /\ \E i \in Cells : Cardinality(initial[i]) >= 2

(***************************************************************************)
(* Properties of topologies and positions                                  *)
(***************************************************************************)
\* C16: get_peers_at_index(i, mode) returns NoMatchingGroup exactly if no
\* group of the topology contains i; otherwise it returns Ok with the union
\* of the groups containing i (minus i in ExcludeSelf mode), also when that
\* set is empty.
C16_NoMatchingGroupIffNoGroup ==
    (query # NoQuery /\ query[1].op = "get_peers_at_index") =>
        LET i     == query[1].index
            mine  == { k \in DOMAIN groups : i \in groups[k].indexes }
            union == UNION { groups[k].indexes : k \in mine }
        IN  /\ answer.err <=> (mine = {})
            /\ mine # {} =>
                 answer.set = IF query[1].mode = "ExcludeSelf"
                              THEN union \ {i} ELSE union

\* C17: in every topology built by a sequence of with_default_sudoku_blocks,
\* with_default_rows_and_columns and with_group (groups without a preset
\* id) the group ids are sequential and pairwise distinct.
C17_GroupIdsDistinct ==
    /\ \A j, k \in DOMAIN groups : j # k => groups[j].id # groups[k].id
    /\ \A k \in DOMAIN groups :
          k > 1 => groups[k].id = groups[k - 1].id + 1

\* C18: Index and Coordinate are in bijection via index = y * 9 + x: a
\* conversion followed by the opposite one returns the value started from,
\* and into_index always returns y * 9 + x, an index in 0..81.
C18_IndexCoordinateBijection ==
    /\ (query # NoQuery /\ query[Len(query)].op = "into_index") =>
          /\ answer \in Index
          /\ answer = query[Len(query)].arg.y * GAME_WIDTH
                        + query[Len(query)].arg.x
    /\ Len(query) = 2 => answer = query[1].arg

\* A coordinate off the diagonal went to an index and back.
C18_Witness ==
    /\ Len(query) = 2
    /\ query[1].op = "into_index"
    /\ query[1].arg.x # query[1].arg.y
    /\ query[2].op = "into_coordinate"

(***************************************************************************)
(* Properties of the search stack                                          *)
(***************************************************************************)
\* C19: branch isolation.  No step changes the caller's board or a board
\* that stays on the stack; while strategies mutate the current board the
\* stack and the last-seen board stay as they are, and the last-seen board
\* changes only when a board is popped; the boards a fork pushes are the
\* current board with the fork value forgotten in one cell, untouched by the
\* placement, and the placed board, untouched by the forgetting.
C19_BranchIsolation ==
    [][ /\ initial' = initial
        /\ \A k \in 1 .. Min({Len(stack), Len(stack')}) : stack'[k] = stack[k]
        /\ pc \in SlotSet => stack' = stack
        /\ pc # "stack" => last_seen_state' = last_seen_state
        /\ Len(stack') > Len(stack) =>
             \E i \in Cells :
                /\ Cardinality(state[i]) >= 2
                /\ stack'[Len(stack) + 1] =
                      [state EXCEPT ![i] = @ \ {Min(@)}]
                /\ Len(stack') = Len(stack) + 2 =>
                      /\ stack'[Len(stack) + 2][i] = {Min(state[i])}
                      /\ Within(stack'[Len(stack) + 2], state) ]_vars

\* A strategy changed the current board while other boards wait on the
\* stack and the last-seen board still is the board as popped.
C19_Witness ==
    /\ pc \in SlotSet
    /\ stack # <<>>
    /\ state # last_seen_state
    /\ last_seen_state # initial

\* C20: depth-first fork order.  A fork pushes the reduced board and on top
\* of it the forked board if that one is consistent; only the top of the
\* stack is ever popped and nothing else changes the stack, so the next board
\* popped is the forked one if it is on the stack, else the reduced one, and
\* the reduced board is popped after every board derived from the forked one.
C20_DepthFirstForkOrder ==
    [][ /\ Len(stack') > Len(stack) =>
             /\ pc = "post"
             /\ pc' = "stack"
             /\ \E i \in Cells :
                  LET v       == first_candidate(state[i])
                      forked  == place_and_propagate_at_index(
                                     state, i, v, groups).state
                      reduced == forget_at_index(state, i, v).state
                  IN  /\ Cardinality(state[i]) >= 2
                      /\ stack' = stack \o <<reduced>>
                                   \o (IF is_consistent(forked, groups)
                                       THEN <<forked>> ELSE <<>>)
        /\ Len(stack') < Len(stack) =>
             /\ pc = "stack"
             /\ stack' = Rest
             /\ last_seen_state' = Top
        /\ Len(stack') = Len(stack) => stack' = stack ]_vars

\* A forked board lies on top of its reduced board, about to be popped.
C20_Witness ==
    /\ pc = "stack"
    /\ Len(stack) >= 2
    /\ \E i \in Cells :
          /\ Cardinality(Top[i]) = 1
          /\ stack[Len(stack) - 1][i] # {}
          /\ stack[Len(stack) - 1][i] \cap Top[i] = {}

\* C21: at a fork the value is the lowest candidate of the fork cell; the
\* reduced board pushed is the branch's board with that value removed from
\* the fork cell and nothing else changed, and the forked board has the fork
\* cell equal to exactly that value.
C21_ForkTakesLowestCandidate ==
    [][ Len(stack') > Len(stack) =>
          LET i == pick_index_to_fork_from(state, groups).index
              v == Min(state[i])
          IN  /\ v \in state[i]
              /\ \A w \in state[i] : v <= w
              /\ stack'[Len(stack) + 1][i] = state[i] \ {v}
              /\ \A j \in Cells \ {i} : stack'[Len(stack) + 1][j] = state[j]
              /\ Len(stack') = Len(stack) + 2 =>
                    stack'[Len(stack) + 2][i] = {v} ]_vars

\* The first fork of a run pushed both of its boards: they split the
\* candidates of one cell of the popped board between them.
C21_Witness ==
    /\ pc = "stack"
    /\ Len(stack) = 2
    /\ \E i \in Cells :
          /\ Cardinality(stack[2][i]) = 1
          /\ Cardinality(stack[1][i]) >= 2
          /\ \A w \in stack[1][i] : \A v \in stack[2][i] : v < w

(***************************************************************************)
(* Properties of branch selection                                          *)
(***************************************************************************)
\* The cells of S with two or more candidates on board b.
Open(b, S) == { j \in S : Cardinality(b[j]) >= 2 }

\* The sum of the candidate counts of the cells of S.
RECURSIVE CandidateSum(_, _)
CandidateSum(b, S) ==
    IF S = {} THEN 0
    ELSE LET j == CHOOSE k \in S : TRUE
         IN  Cardinality(b[j]) + CandidateSum(b, S \ {j})

\* The peer set of i with i itself.
PeersWithSelf(gs, i) ==
    {i} \cup UNION { gs[k].indexes : k \in { n \in DOMAIN gs : i \in gs[n].indexes } }

\* S(i): the candidates left in the open cells around i.
PeerSum(b, gs, i) == CandidateSum(b, Open(b, PeersWithSelf(gs, i)))

\* C22: branch selection takes the lowest index i* whose S(i*) is minimal
\* among the i with S(i) > 0 and returns the cell with the fewest candidates
\* (at least two, lowest index on ties) in the peer set of i* with i*; it
\* returns None exactly if no cell has two or more candidates.
C22_BranchSelection ==
    (pc = "returned" /\ call.op = "pick_index_to_fork_from") =>
        LET positive == { i \in Cells : PeerSum(initial, groups, i) > 0 }
            minimal  == { i \in positive :
                            \A k \in positive :
                               PeerSum(initial, groups, i)
                                  <= PeerSum(initial, groups, k) }
            open     == Open(initial, PeersWithSelf(groups, Min(minimal)))
            fewest   == { j \in open :
                            \A k \in open :
                               Cardinality(initial[j])
                                  <= Cardinality(initial[k]) }
        IN  /\ ~answer.some <=> Open(initial, Cells) = {}
            /\ answer.some => answer.index = Min(fewest)

\* Branch selection returned a cell that is not the lowest open one.
C22_Witness ==
    /\ pc = "returned"
    /\ call.op = "pick_index_to_fork_from"
    /\ answer.some
    /\ answer.index # Min(Open(initial, Cells))

\* C23: in solve the case of no branchable cell does not occur: whenever a
\* branch's board is consistent and not solved after propagation, branch
\* selection returns a cell with two or more candidates, and no debug
\* assertion guarding the fork fails.
C23_ForkCellAlwaysFound ==
    /\ pc # "panic"
    /\ (pc = "post" /\ is_consistent(state, groups) /\ ~is_solved(state, groups))
       => /\ pick_index_to_fork_from(state, groups).some
          /\ Cardinality(state[pick_index_to_fork_from(state, groups).index]) >= 2

\* A debug build is about to fork a consistent, unsolved board.
C23_Witness ==
    /\ debug
    /\ pc = "post"
    /\ is_consistent(state, groups)
    /\ ~is_solved(state, groups)

(***************************************************************************)
(* Properties of propagation and of the strategies                         *)
(***************************************************************************)
\* What the strategy of slot p returns on board b.
StrategyOfSlot(p, b) ==
    IF p = "naked_singles" THEN play_naked_singles(b, groups)
    ELSE IF p \in HiddenSinglesSlots
    THEN play_hidden_singles_in_group(b, groups, SlotType[p])
    ELSE play_naked_twins_in_group(b, groups, SlotType[p])

\* C24: when propagation of a branch ends without InvalidState the board is
\* a fixed point of the enabled strategies: each of them, naked singles
\* included, applied once more changes no cell.
C24_PropagationReachesFixedPoint ==
    pc = "post" =>
        \A p \in SlotSet :
           is_enabled(config, p) => StrategyOfSlot(p, state).state = state

\* The cells other than c in the groups of the type that contain c.
SameTypePeers(gs, group_type, c) ==
    UNION { gs[k].indexes :
              k \in { n \in DOMAIN gs : /\ gs[n].group_type = group_type
                                        /\ c \in gs[n].indexes } } \ {c}

\* The cells other than c in the groups of any type that contain c.
Peers(gs, c) == PeersWithSelf(gs, c) \ {c}

\* C25: hidden singles for a group type places v into cell c only if c has
\* two or more candidates, v among them, and no other cell of a group of
\* that type containing c has v; afterwards c is exactly {v} and no peer of
\* c has v; a solved or empty cell is never a placement target.
C25_HiddenSinglesPlacement ==
    [][ state' # state =>
          LET c == call.index
          IN  \E v \in state[c] :
                 /\ Cardinality(state[c]) >= 2
                 /\ \A j \in SameTypePeers(groups, SlotType[pc], c) :
                       v \notin state[j]
                 /\ state'[c] = {v}
                 /\ \A p \in Peers(groups, c) : v \notin state'[p] ]_vars

\* A hidden single was placed and took the value away from a peer.
C25_Witness ==
    /\ pc \in HiddenSinglesSlots
    /\ result = "true"
    /\ \E c \in Cells :
          /\ Cardinality(initial[c]) >= 2
          /\ Cardinality(state[c]) = 1
          /\ \E p \in Peers(groups, c) :
                state[c] \subseteq initial[p] /\ state[c] \cap state[p] = {}

\* The twin pairs naked twins detects on board b for a group type.
DetectedTwins(b, gs, group_type) ==
    LET found == find_twins_from(b, gs, group_type, 0, {}, <<>>)
    IN  IF found.err THEN {}
        ELSE { found.twins[k] : k \in DOMAIN found.twins }

\* The cells other than the two twins in the groups of the type that contain
\* both twins of the pair.
TwinGroupCells(gs, group_type, twin) ==
    UNION { gs[k].indexes :
              k \in { n \in DOMAIN gs :
                        /\ gs[n].group_type = group_type
                        /\ {twin.smaller, twin.larger} \subseteq gs[n].indexes } }
       \ {twin.smaller, twin.larger}

\* C26: naked twins for a group type removes, for each detected pair with
\* candidates {a, b}, only a and b and only from the other cells of the
\* groups of that type containing the pair; the twin cells keep their
\* candidates, all other cells are unchanged, and a call that returns
\* InvalidState leaves the board unchanged.
C26_NakedTwinsFrame ==
    pc \in NakedTwinsSlots =>
        LET twins == DetectedTwins(initial, groups, SlotType[pc])
        IN  /\ result = "InvalidState" => state = initial
            /\ \A j \in Cells :
                  initial[j] \ state[j] \subseteq
                     UNION { tw.values :
                               tw \in { t \in twins :
                                          j \in TwinGroupCells(
                                                   groups, SlotType[pc], t) } }
            /\ \A tw \in twins :
                  /\ state[tw.smaller] = initial[tw.smaller]
                  /\ state[tw.larger] = initial[tw.larger]

\* C26 on topologies in which no two groups of one type share a cell.
C26_DisjointGroupsFrame ==
    (\A j, k \in DOMAIN groups :
        (j # k /\ groups[j].group_type = groups[k].group_type)
           => groups[j].indexes \cap groups[k].indexes = {})
    => C26_NakedTwinsFrame

(***************************************************************************)
(* Properties of X-Wing                                                    *)
(***************************************************************************)
\* The unsolved cells of board b that carry value v.
Occurrences(b, v) == { i \in Index : Cardinality(b[i]) # 1 /\ v \in b[i] }

RowOf(i) == { j \in Index : j \div GAME_WIDTH = i \div GAME_WIDTH }

ColumnOf(i) == { j \in Index : j % GAME_WIDTH = i % GAME_WIDTH }

\* The cell in the row of cell i and the column of cell j.
Crossing(i, j) == ((i \div GAME_WIDTH) * GAME_WIDTH) + (j % GAME_WIDTH)

\* The rectangles of four unsolved cells carrying v on board b.
Rectangles(b, v) ==
    { [top_left     |-> p[1],
       top_right    |-> Crossing(p[1], p[2]),
       bottom_left  |-> Crossing(p[2], p[1]),
       bottom_right |-> p[2]] :
      p \in { q \in Occurrences(b, v) \X Occurrences(b, v) :
                /\ (q[1] % GAME_WIDTH) < (q[2] % GAME_WIDTH)
                /\ (q[1] \div GAME_WIDTH) < (q[2] \div GAME_WIDTH)
                /\ Crossing(q[1], q[2]) \in Occurrences(b, v)
                /\ Crossing(q[2], q[1]) \in Occurrences(b, v) } }

Corners(r) == {r.top_left, r.top_right, r.bottom_left, r.bottom_right}

\* Each of the two rows of the rectangle has exactly two unsolved
\* occurrences of v.
RowsExact(b, v, r) ==
    /\ Cardinality(RowOf(r.top_left) \cap Occurrences(b, v)) = 2
    /\ Cardinality(RowOf(r.bottom_left) \cap Occurrences(b, v)) = 2

ColumnsExact(b, v, r) ==
    /\ Cardinality(ColumnOf(r.top_left) \cap Occurrences(b, v)) = 2
    /\ Cardinality(ColumnOf(r.top_right) \cap Occurrences(b, v)) = 2

\* The rectangles that qualify as an X-Wing for v.
Identified(b, v) ==
    { r \in Rectangles(b, v) : RowsExact(b, v, r) \/ ColumnsExact(b, v, r) }

\* The cells of the two rows and the two columns of a rectangle.
Lines(r) ==
    RowOf(r.top_left) \cup RowOf(r.bottom_left)
       \cup ColumnOf(r.top_left) \cup ColumnOf(r.top_right)

\* C27: X-Wing examines every value: if for some value v a rectangle of
\* four unsolved cells carrying v has exactly two unsolved occurrences of v
\* in each of its two rows (or columns) and another unsolved cell of its two
\* columns (or rows) carries v, X-Wing removes v from that cell and reports
\* AppliedChange, whatever the number of cells carrying any other value.
C27_XWingExaminesEveryValue ==
    pc = "xwing" =>
        \A v \in Values :
           \A r \in Rectangles(initial, v) :
              \A c \in Occurrences(initial, v) \ Corners(r) :
                 ( \/ /\ RowsExact(initial, v, r)
                      /\ c \in ColumnOf(r.top_left) \cup ColumnOf(r.top_right)
                   \/ /\ ColumnsExact(initial, v, r)
                      /\ c \in RowOf(r.top_left) \cup RowOf(r.bottom_left) )
                 => (v \notin state[c] /\ result = "AppliedChange")

\* C28: after one application of X-Wing every corner of every identified
\* rectangle still has the rectangle's value, only values with an identified
\* rectangle are removed from any cell, and no cell outside the two rows and
\* two columns of an identified rectangle changes.
C28_XWingFrame ==
    pc = "xwing" =>
        /\ \A v \in Values :
              \A r \in Identified(initial, v) :
                 \A c \in Corners(r) : v \in state[c]
        /\ \A j \in Index :
              \A v \in initial[j] \ state[j] : Identified(initial, v) # {}
        /\ \A j \in Index :
              state[j] # initial[j] =>
                 \E v \in Values :
                    \E r \in Identified(initial, v) : j \in Lines(r)

\* C29: X-Wing never removes a candidate from a solved cell: every cell with
\* exactly one candidate before holds the same candidate afterwards.
C29_XWingKeepsSolvedCells ==
    pc = "xwing" =>
        \A i \in Index :
           Cardinality(initial[i]) = 1 => state[i] = initial[i]

(***************************************************************************)
(* Properties of is_exactly                                                *)
(***************************************************************************)
\* C30: is_exactly(v) of a value set is true exactly if the set is the
\* singleton {v}, so it is false for the empty set, and set_at_index(i, v)
\* on a cell with no candidates does not return as if the cell already held
\* exactly v: it leaves the cell holding {v}.
C30_IsExactlySingleton ==
    pc = "returned" =>
        /\ call.op = "is_exactly"
           => (result = "true" <=> initial[call.index] = call.values)
        /\ ( /\ call.op = "set_at_index"
             /\ result # "panic"
             /\ initial[call.index] = {} )
           => (result = "true" /\ state[call.index] = call.values)

====
